---- MODULE Spec2Model ----
(***************************************************************************)
(* A model of the document normalisation / deduplication / zone            *)
(* segmentation pipeline of mawa (src/src/mawa/etl/transform.py and        *)
(* src/src/mawa/etl/table_utils.py).                                       *)
(*                                                                         *)
(* Files are modelled as sequences of length 0 (the path does not exist)   *)
(* or 1 (the path holds that JSON value).  Text (markdown, paragraph       *)
(* content) is a sequence of symbols; an inline image reference            *)
(* ![name](name) is one symbol.                                            *)
(***************************************************************************)
EXTENDS Integers, Sequences, FiniteSets, TLC

VARIABLES
    ocr,          \* the OCR response file at ocr_path: [pages]
    raw,          \* the Document file at raw_path (3.raw)
    page_split,   \* the classification file at page_split_path
    interim,      \* zone -> the Document file interim_dir/<zone>.json
    image_files,  \* <<zone, name>> -> the image file interim_dir/<zone>/<name>.jpg
    pdf,          \* page count of the source PDF, -1 when the PDF is missing
    now,          \* the wall clock, in seconds
    op,           \* the stage that ran last ("ocr" while the OCR payload is produced)
    before,       \* the files as they were when the last stage was invoked
    calls,        \* units of computation of the last stage invocation
    emitted,      \* the child Documents written by the last split_documents, in order
    returned,     \* what the last stage invocation returned or raised
    torn,         \* the paths holding a file cut short by an interrupted write
    dirs,         \* the paths among them that are directories
    peer          \* another document of the city: [raw, written]

vars == <<ocr, raw, page_split, interim, image_files, pdf, now, op, before,
          calls, emitted, returned, torn, dirs, peer>>

(***************************************************************************)
(* Bounds of the model.                                                    *)
(***************************************************************************)
MaxPages == 2
MaxImages == 3
MaxLex == 4
MaxRefImages == 2
MaxClock == 1
Few == 1
MaxGroups == 2
MaxRefs == 3
MaxCells == 6
MaxParagraphs == 3
MaxFrameParagraphs == 2

(* Image names, ordered as Python orders the strings. *)
NameOrder == <<"a", "b", "c">>
Names == {NameOrder[i] : i \in 1..Len(NameOrder)}
NameRank(n) == CHOOSE i \in 1..Len(NameOrder) : NameOrder[i] = n

(* Encoded pixel data of the images. *)
PixelData == {"p0", "p1", "p2"}

None == "None"
Zonings == {"Z1", "Z2"}
Zones == {"UA", "UB"}

(***************************************************************************)
(* Generic sequence helpers.                                               *)
(***************************************************************************)
Range(s) == {s[i] : i \in 1..Len(s)}

(* list.remove(x): drops the first element equal to x. *)
RECURSIVE RemoveFirst(_, _)
RemoveFirst(s, x) ==
    IF s = <<>> THEN <<>>
    ELSE IF Head(s) = x THEN Tail(s)
    ELSE <<Head(s)>> \o RemoveFirst(Tail(s), x)

(***************************************************************************)
(* Text.                                                                   *)
(***************************************************************************)
NL == "\n"
SP == " "
TXT == "x"
PIPE == "|"
DASH == "-"
COLON == ":"

(* f"![{image_name}]({image_name})" *)
ImageTag(image_name) == "![" \o image_name \o "](" \o image_name \o ")"

IsSpace(c) == c \in {NL, SP}

(* str.split("\n\n"): cut at each leftmost pair of newlines; empty segments
   are kept. *)
RECURSIVE FindBreak(_, _)
FindBreak(s, i) ==
    IF i + 1 > Len(s) THEN 0
    ELSE IF s[i] = NL /\ s[i + 1] = NL THEN i
    ELSE FindBreak(s, i + 1)

RECURSIVE SplitBlank(_)
SplitBlank(s) ==
    LET i == FindBreak(s, 1)
    IN IF i = 0 THEN <<s>>
       ELSE <<SubSeq(s, 1, i - 1)>> \o SplitBlank(SubSeq(s, i + 2, Len(s)))

(* str.replace(tag, ""): every occurrence of the tag symbol is dropped. *)
ReplaceTag(content, tag) == SelectSeq(content, LAMBDA c : c # tag)

Contains(content, tag) == \E i \in 1..Len(content) : content[i] = tag

(* str.strip(): leading and trailing whitespace is dropped. *)
RECURSIVE LStrip(_)
LStrip(s) == IF s # <<>> /\ IsSpace(Head(s)) THEN LStrip(Tail(s)) ELSE s

RECURSIVE RStrip(_)
RStrip(s) ==
    IF s # <<>> /\ IsSpace(s[Len(s)]) THEN RStrip(SubSeq(s, 1, Len(s) - 1)) ELSE s

Strip(s) == RStrip(LStrip(s))

(* '\n\n'.join(paragraph.content for paragraph in page.paragraphs) *)
RECURSIVE JoinBlank(_)
JoinBlank(paragraphs) ==
    IF paragraphs = <<>> THEN <<>>
    ELSE IF Len(paragraphs) = 1 THEN paragraphs[1].content
    ELSE paragraphs[1].content \o <<NL, NL>> \o JoinBlank(Tail(paragraphs))

(***************************************************************************)
(* The Document model: Image, Paragraph, Page, Document.                   *)
(***************************************************************************)
Image(name, x1, y1, x2, y2, b64) ==
    [name_img |-> name, top_left_x |-> x1, top_left_y |-> y1,
     bottom_right_x |-> x2, bottom_right_y |-> y2, image_base64 |-> b64]

Paragraph(index, content) == [index |-> index, content |-> content]

Dimensions(dpi, width, height) == [dpi |-> dpi, width |-> width, height |-> height]

Page(index, paragraphs, images, dimensions) ==
    [index |-> index, paragraphs |-> paragraphs, images |-> images,
     dimensions |-> dimensions]

Document(pages, name_of_document, date_of_document, document_type, city, zoning, zone, modified_at) ==
    [pages |-> pages, name_of_document |-> name_of_document,
     date_of_document |-> date_of_document, document_type |-> document_type,
     city |-> city, zoning |-> zoning, zone |-> zone, modified_at |-> modified_at]

PageIndices(document) == {document.pages[i].index : i \in 1..Len(document.pages)}

(* page_map = {page.index: page for page in document.pages}: a later page
   with the same index replaces an earlier one.  The position of the page
   that page_map[index] denotes. *)
PageMapPos(document, index) ==
    CHOOSE i \in 1..Len(document.pages) :
        /\ document.pages[i].index = index
        /\ \A j \in (i + 1)..Len(document.pages) : document.pages[j].index # index

(***************************************************************************)
(* The OCR collaborator: it produces the payload at ocr_path page by page, *)
(* each page a markdown text and a list of images.                         *)
(***************************************************************************)
RECURSIVE CountImages(_)
CountImages(pages) ==
    IF pages = <<>> THEN 0 ELSE Len(Head(pages).images) + CountImages(Tail(pages))

RECURSIVE CountMarkdown(_)
CountMarkdown(pages) ==
    IF pages = <<>> THEN 0 ELSE Len(Head(pages).markdown) + CountMarkdown(Tail(pages))

(* Page sizes at 200 dpi: A4 and A3. *)
A4 == Dimensions(200, 1654, 2339)
A3 == Dimensions(200, 2339, 3308)

(* What a stage hands back: the name of the exception that left it, "" when
   it returned. *)
Returned(exception) == [raised |-> exception]

(* The paragraphs of the pages whose text is not empty. *)
RECURSIVE CountParagraphs(_)
CountParagraphs(pages) ==
    IF pages = <<>> THEN 0
    ELSE (IF Head(pages).markdown = <<>> THEN 0
          ELSE Len(SplitBlank(Head(pages).markdown)))
         + CountParagraphs(Tail(pages))

Snapshot ==
    [raw |-> raw, interim |-> interim, image_files |-> image_files,
     page_split |-> page_split, torn |-> torn, dirs |-> dirs]

NoFiles ==
    [raw |-> <<>>, interim |-> [z \in Zones |-> <<>>],
     image_files |-> [k \in Zones \X Names |-> <<>>], page_split |-> <<>>,
     torn |-> {}, dirs |-> {}]

OcrPage(maxPages, sizes) ==
    /\ op = "ocr"
    /\ Len(ocr.pages) < maxPages
    /\ \E dimensions \in sizes :
         ocr' = [ocr EXCEPT !.pages = Append(@, [markdown |-> <<>>, images |-> <<>>,
                                                 dimensions |-> dimensions,
                                                 lacks |-> {}])]
    /\ UNCHANGED <<raw, page_split, interim, image_files, pdf, now, op, before,
                   calls, emitted, returned, torn, dirs, peer>>

OcrImage(maxImages, names, pixels) ==
    /\ op = "ocr"
    /\ ocr.pages # <<>>
    /\ CountImages(ocr.pages) < maxImages
    /\ \E name \in names, b64 \in pixels :
         ocr' = [ocr EXCEPT !.pages[Len(ocr.pages)].images =
                                Append(@, Image(name, 0, 0, 1, 1, b64))]
    /\ UNCHANGED <<raw, page_split, interim, image_files, pdf, now, op, before,
                   calls, emitted, returned, torn, dirs, peer>>

(* The lexemes the OCR text is made of: a word, a blank, a paragraph break,
   an inline image reference. *)
OcrText(maxLex, lexemes) ==
    /\ op = "ocr"
    /\ ocr.pages # <<>>
    /\ \E lex \in lexemes :
         /\ CountMarkdown(ocr.pages) + Len(lex) <= maxLex
         /\ ocr' = [ocr EXCEPT !.pages[Len(ocr.pages)].markdown = @ \o lex]
    /\ UNCHANGED <<raw, page_split, interim, image_files, pdf, now, op, before,
                   calls, emitted, returned, torn, dirs, peer>>

(* A block of text as the only text of the last page. *)
OcrBlock(blocks) ==
    /\ op = "ocr"
    /\ ocr.pages # <<>>
    /\ ocr.pages[Len(ocr.pages)].markdown = <<>>
    /\ \E block \in blocks :
         ocr' = [ocr EXCEPT !.pages[Len(ocr.pages)].markdown = block]
    /\ UNCHANGED <<raw, page_split, interim, image_files, pdf, now, op, before,
                   calls, emitted, returned, torn, dirs, peer>>

(* A paragraph more at the end of the text of the last page. *)
OcrParagraph(maxParagraphs, blocks) ==
    /\ op = "ocr"
    /\ ocr.pages # <<>>
    /\ CountParagraphs(ocr.pages) < maxParagraphs
    /\ \E block \in blocks :
         ocr' = [ocr EXCEPT !.pages[Len(ocr.pages)].markdown =
                                IF @ = <<>> THEN block ELSE @ \o <<NL, NL>> \o block]
    /\ UNCHANGED <<raw, page_split, interim, image_files, pdf, now, op, before,
                   calls, emitted, returned, torn, dirs, peer>>

(* The payload's date_of_document and document_type. *)
OcrDescribe(dates, document_types) ==
    /\ op = "ocr"
    /\ \E date \in dates, document_type \in document_types :
         ocr' = [ocr EXCEPT !.date_of_document = date,
                            !.document_type = document_type]
    /\ UNCHANGED <<raw, page_split, interim, image_files, pdf, now, op, before,
                   calls, emitted, returned, torn, dirs, peer>>

(* A payload without one of them, as the OCR service returns it. *)
OcrOmitMetadata(keys) ==
    /\ op = "ocr"
    /\ \E key \in keys : ocr' = [ocr EXCEPT !.lacks = @ \cup {key}]
    /\ UNCHANGED <<raw, page_split, interim, image_files, pdf, now, op, before,
                   calls, emitted, returned, torn, dirs, peer>>

(* The fields of a page of the OCR payload that the normalizer reads. *)
PageKeys == {"markdown", "images", "dimensions"}

(* A malformed payload: the last page comes without one of its fields. *)
OcrOmit(keys) ==
    /\ op = "ocr"
    /\ ocr.pages # <<>>
    /\ ocr.pages[Len(ocr.pages)].lacks = {}
    /\ \E key \in keys :
         ocr' = [ocr EXCEPT !.pages[Len(ocr.pages)].lacks = {key}]
    /\ UNCHANGED <<raw, page_split, interim, image_files, pdf, now, op, before,
                   calls, emitted, returned, torn, dirs, peer>>

Tick ==
    /\ now < MaxClock
    /\ now' = now + 1
    /\ UNCHANGED <<ocr, raw, page_split, interim, image_files, pdf, op, before,
                   calls, emitted, returned, torn, dirs, peer>>

(***************************************************************************)
(* Transform.ocr_response_to_document                                      *)
(***************************************************************************)
Paragraphs(markdown) ==
    LET segments == SplitBlank(markdown)
    IN [k \in 1..Len(segments) |-> Paragraph(k, segments[k])]

(* Mutant: pages numbered from 0, as enumerate does. *)
NormalizedPagesFromZero(ocr_pages) ==
    [n \in 1..Len(ocr_pages) |->
        Page(n - 1, Paragraphs(ocr_pages[n].markdown), ocr_pages[n].images,
             ocr_pages[n].dimensions)]

NormalizedPages(ocr_pages) ==
    [n \in 1..Len(ocr_pages) |->
        Page(n, Paragraphs(ocr_pages[n].markdown), ocr_pages[n].images,
             ocr_pages[n].dimensions)]

(* The Transform instance: Transform(city, doc_name). *)
City == "grenoble"
DocName == "plu"

(* The fields of the OCR payload that the Document's metadata is read from. *)
MetadataKeys == {"date_of_document", "document_type"}

(* Mutant: the date and the type of the document are the caller's. *)
NormalizedDocumentOfCaller(ocr_response, zone) ==
    Document(NormalizedPages(ocr_response.pages), DocName, "2024-01-01", "PLU",
             City, None, zone, now)

NormalizedDocument(ocr_response, zone) ==
    Document(NormalizedPages(ocr_response.pages), DocName,
             ocr_response.date_of_document, ocr_response.document_type, City,
             None, zone, now)

(* page["markdown"], page["images"], page["dimensions"]: the number of pages
   built before the lookup of a missing key raises KeyError. *)
RECURSIVE PagesBuilt(_)
PagesBuilt(ocr_pages) ==
    IF ocr_pages = <<>> \/ Head(ocr_pages).lacks # {} THEN 0
    ELSE 1 + PagesBuilt(Tail(ocr_pages))

(* Mutant: an existing Document at raw_path is returned as it is. *)
OcrResponseToDocumentOnce(zone) ==
    /\ raw' = IF raw # <<>> THEN raw
              ELSE <<NormalizedDocument(ocr, zone)>>
    /\ calls' = IF raw # <<>> THEN 0 ELSE Len(ocr.pages)
    /\ returned' = Returned("")
    /\ torn' = torn
    /\ op' = "normalize"
    /\ before' = Snapshot
    /\ UNCHANGED <<ocr, page_split, interim, image_files, pdf, now, emitted, dirs, peer>>

OcrResponseToDocument(zone) ==
    LET built == PagesBuilt(ocr.pages)
        raised == built < Len(ocr.pages) \/ ocr.lacks # {}
    IN /\ raw' = IF raised THEN raw
                 ELSE <<NormalizedDocument(ocr, zone)>>
       /\ calls' = built
       /\ returned' = Returned(IF raised THEN "KeyError" ELSE "")
       /\ op' = "normalize"
       /\ before' = Snapshot
       /\ torn' = IF raised THEN torn ELSE torn \ {"raw"}
       /\ UNCHANGED <<ocr, page_split, interim, image_files, pdf, now, emitted, dirs, peer>>

(* An interruption of the process (a signal, a power cut) while a stage
   computes, or while save_json writes: open(file_path, "w") has emptied the
   file and json.dump has written a part of the text. *)
InterruptPoints == {"computing", "writing"}

OcrResponseToDocumentInterrupted(zone) ==
    /\ PagesBuilt(ocr.pages) = Len(ocr.pages)
    /\ ocr.lacks = {}
    /\ \E point \in InterruptPoints :
         /\ raw' = IF point = "writing" THEN <<>> ELSE raw
         /\ torn' = IF point = "writing" THEN torn \cup {"raw"} ELSE torn
    /\ calls' = Len(ocr.pages)
    /\ returned' = Returned("KeyboardInterrupt")
    /\ op' = "normalize"
    /\ before' = Snapshot
    /\ UNCHANGED <<ocr, page_split, interim, image_files, pdf, now, emitted, dirs, peer>>

(***************************************************************************)
(* Transform.clean_document                                                *)
(***************************************************************************)
SimilarityThreshold == 5

(* imagehash.phash of the decoded image: a set of bits. *)
Phash(b64) ==
    CASE b64 = "p0" -> {}
      [] b64 = "p1" -> 1..4
      [] b64 = "p2" -> 1..9

(* ImageHash.__sub__: the Hamming distance. *)
Hamming(h1, h2) == Cardinality((h1 \ h2) \cup (h2 \ h1))

(* Mutant: at most 5 bits instead of fewer than 5. *)
NearDuplicateOrEqual(h1, h2) == Hamming(h1, h2) <= SimilarityThreshold

NearDuplicate(h1, h2) == Hamming(h1, h2) < SimilarityThreshold

ImageData(page, image) ==
    [page_index |-> page.index,
     image_hash |-> Phash(image.image_base64),
     image |-> image]

RECURSIVE AllImageData(_)
AllImageData(pages) ==
    IF pages = <<>> THEN <<>>
    ELSE [i \in 1..Len(Head(pages).images) |->
             ImageData(Head(pages), Head(pages).images[i])]
         \o AllImageData(Tail(pages))

(* images_dict[name_img] = {...}: a dict keeps the position of the first
   insertion of a key and the value of the last. *)
DictPut(dict, data) ==
    IF \E i \in 1..Len(dict) : dict[i].image.name_img = data.image.name_img
    THEN [i \in 1..Len(dict) |->
             IF dict[i].image.name_img = data.image.name_img THEN data ELSE dict[i]]
    ELSE Append(dict, data)

RECURSIVE DictPutAll(_, _)
DictPutAll(dict, datas) ==
    IF datas = <<>> THEN dict
    ELSE DictPutAll(DictPut(dict, Head(datas)), Tail(datas))

ImagesDict(document) == DictPutAll(<<>>, AllImageData(document.pages))

Enqueue(duplicated_images, data) ==
    IF \E i \in 1..Len(duplicated_images) :
           duplicated_images[i].image.name_img = data.image.name_img
    THEN duplicated_images
    ELSE Append(duplicated_images, data)

(* The double loop over images_dict.items(), pair number k of n * n. *)
RECURSIVE DuplicatedLoop(_, _, _)
DuplicatedLoop(dict, k, duplicated_images) ==
    LET n == Len(dict)
        d1 == dict[((k - 1) \div n) + 1]
        d2 == dict[((k - 1) % n) + 1]
    IN IF k > n * n THEN duplicated_images
       ELSE IF NameRank(d1.image.name_img) >= NameRank(d2.image.name_img)
       THEN DuplicatedLoop(dict, k + 1, duplicated_images)
       ELSE IF NearDuplicate(d1.image_hash, d2.image_hash)
       THEN DuplicatedLoop(dict, k + 1, Enqueue(Enqueue(duplicated_images, d1), d2))
       ELSE DuplicatedLoop(dict, k + 1, duplicated_images)

DuplicatedImages(document) == DuplicatedLoop(ImagesDict(document), 1, <<>>)

(* Mutant: the reference is replaced and the content stripped in every
   paragraph of the page. *)
RemoveImageTagEverywhere(paragraphs, image_tag) ==
    [k \in 1..Len(paragraphs) |->
        [paragraphs[k] EXCEPT !.content = Strip(ReplaceTag(@, image_tag))]]

(* The loop over page.paragraphs: the first paragraph holding the tag is
   rewritten, then the loop breaks. *)
RECURSIVE RemoveImageTag(_, _)
RemoveImageTag(paragraphs, image_tag) ==
    IF paragraphs = <<>> THEN <<>>
    ELSE IF Contains(Head(paragraphs).content, image_tag)
    THEN <<[Head(paragraphs) EXCEPT
               !.content = Strip(ReplaceTag(@, image_tag))]>> \o Tail(paragraphs)
    ELSE <<Head(paragraphs)>> \o RemoveImageTag(Tail(paragraphs), image_tag)

RemoveDuplicated(document, image_data) ==
    LET pos == PageMapPos(document, image_data.page_index)
    IN [document EXCEPT
           !.pages[pos].images = RemoveFirst(@, image_data.image),
           !.pages[pos].paragraphs =
               RemoveImageTag(@, ImageTag(image_data.image.name_img))]

RECURSIVE RemoveAllDuplicated(_, _)
RemoveAllDuplicated(document, duplicated_images) ==
    IF duplicated_images = <<>> THEN document
    ELSE RemoveAllDuplicated(RemoveDuplicated(document, Head(duplicated_images)),
                             Tail(duplicated_images))

CleanedDocument(document) == RemoveAllDuplicated(document, DuplicatedImages(document))

CleanDocument ==
    /\ raw # <<>>
    /\ raw' = <<CleanedDocument(raw[1])>>
    /\ calls' = CountImages(raw[1].pages)
    /\ returned' = Returned("")
    /\ op' = "clean"
    /\ before' = Snapshot
    /\ UNCHANGED <<ocr, page_split, interim, image_files, pdf, now, emitted, torn, dirs, peer>>

CleanDocumentInterrupted ==
    /\ raw # <<>>
    /\ \E point \in InterruptPoints :
         /\ raw' = IF point = "writing" THEN <<>> ELSE raw
         /\ torn' = IF point = "writing" THEN torn \cup {"raw"} ELSE torn
    /\ calls' = CountImages(raw[1].pages)
    /\ returned' = Returned("KeyboardInterrupt")
    /\ op' = "clean"
    /\ before' = Snapshot
    /\ UNCHANGED <<ocr, page_split, interim, image_files, pdf, now, emitted, dirs, peer>>

(***************************************************************************)
(* The page classification at page_split_path: {"parsed": [{zoning, zone,  *)
(* pages}, ...]}, produced by the classifier group by group.               *)
(***************************************************************************)
RECURSIVE CountRefs(_)
CountRefs(groups) ==
    IF groups = <<>> THEN 0 ELSE Len(Head(groups).pages) + CountRefs(Tail(groups))

Parsed == IF page_split = <<>> THEN <<>> ELSE page_split[1].parsed

(* The classifier runs once the Document has been normalized for the first
   time. *)
Classifying == raw # <<>> /\ op = "normalize" /\ before.raw = <<>>

ClassifyGroup(maxGroups, labels) ==
    /\ Classifying
    /\ "page_split" \notin dirs
    /\ Len(Parsed) < maxGroups
    /\ \E label \in labels :
         page_split' = <<[parsed |-> Append(Parsed,
                             [zoning |-> label[1], zone |-> label[2],
                              pages |-> <<>>, lacks |-> {}])]>>
    /\ UNCHANGED <<ocr, raw, interim, image_files, pdf, now, op, before,
                   calls, emitted, returned, torn, dirs, peer>>

(* What the LLM classifier may answer. *)
ClassifierResponses ==
    {[parsed |-> <<>>],
     [parsed |-> <<[zoning |-> "Z1", zone |-> "UA", pages |-> <<1>>, lacks |-> {}]>>],
     [parsed |-> <<[zoning |-> "Z1", zone |-> "UA", pages |-> <<1>>, lacks |-> {}],
                   [zoning |-> "Z1", zone |-> "UB", pages |-> <<2>>, lacks |-> {}]>>]}

(* Transform.pages_splitting: the Document at raw_path is read, the
   classifier is called once, page_split_path.mkdir(exist_ok=True) is run on
   the path of the file itself and save_json opens that path for writing.
   mkdir raises FileExistsError when the path is a file; otherwise the path
   becomes a directory and open raises IsADirectoryError. *)
PagesSplitting(responses) ==
    /\ raw # <<>>
    /\ \E response \in responses :
         LET is_file == page_split # <<>> \/ "page_split" \in torn
         IN /\ returned' = [raised |-> IF is_file THEN "FileExistsError"
                                       ELSE "IsADirectoryError",
                            response |-> response]
            /\ dirs' = IF is_file THEN dirs ELSE dirs \cup {"page_split"}
    /\ calls' = 1
    /\ op' = "classify"
    /\ before' = Snapshot
    /\ UNCHANGED <<ocr, raw, page_split, interim, image_files, pdf, now, emitted,
                   torn, peer>>

(* The fields of a group of the classification that the segmenter reads. *)
GroupKeys == {"zoning", "zone", "pages"}

(* A malformed classification: the last group comes without one of its
   fields. *)
ClassifyOmit(keys) ==
    /\ Classifying
    /\ Parsed # <<>>
    /\ Parsed[Len(Parsed)].lacks = {}
    /\ \E key \in keys :
         page_split' = <<[parsed |-> [Parsed EXCEPT ![Len(Parsed)].lacks = {key}]]>>
    /\ UNCHANGED <<ocr, raw, interim, image_files, pdf, now, op, before,
                   calls, emitted, returned, torn, dirs, peer>>

(* A page index the classifier names: one of the parent's, or one past them. *)
ClassifyPage(maxRefs) ==
    /\ Classifying
    /\ Parsed # <<>>
    /\ CountRefs(Parsed) < maxRefs
    /\ \E page_idx \in 1..(Len(raw[1].pages) + 1) :
         page_split' = <<[parsed |->
             [Parsed EXCEPT ![Len(Parsed)].pages = Append(@, page_idx)]]>>
    /\ UNCHANGED <<ocr, raw, interim, image_files, pdf, now, op, before,
                   calls, emitted, returned, torn, dirs, peer>>

(***************************************************************************)
(* Transform.split_documents and Transform.save_images                     *)
(***************************************************************************)
(* base64.b64decode *)
B64Decode(b64) == "bytes-" \o b64

RECURSIVE WriteImages(_, _, _)
WriteImages(files, zone, images) ==
    IF images = <<>> THEN files
    ELSE WriteImages(
             [files EXCEPT ![<<zone, Head(images).name_img>>] =
                               <<B64Decode(Head(images).image_base64)>>],
             zone, Tail(images))

RECURSIVE SaveImagesOfPages(_, _, _)
SaveImagesOfPages(files, zone, pages) ==
    IF pages = <<>> THEN files
    ELSE SaveImagesOfPages(WriteImages(files, zone, Head(pages).images),
                           zone, Tail(pages))

(* save_images(zone): reads interim_dir/<zone>.json back and writes each
   image of each page. *)
SaveImages(files, docs, zone) == SaveImagesOfPages(files, zone, docs[zone][1].pages)

(* [page_map[page_idx] for page_idx in page_indices if page_idx in page_map] *)
RECURSIVE LookupPages(_, _)
LookupPages(document, page_indices) ==
    IF page_indices = <<>> THEN <<>>
    ELSE IF Head(page_indices) \in PageIndices(document)
    THEN <<document.pages[PageMapPos(document, Head(page_indices))]>>
         \o LookupPages(document, Tail(page_indices))
    ELSE LookupPages(document, Tail(page_indices))

(* Mutant: the pages of the group in the order of the parent. *)
SelectedPagesInParentOrder(document, page_indices) ==
    SelectSeq(document.pages, LAMBDA page : page.index \in Range(page_indices))

(* Mutant: the selected pages renumbered from 1. *)
SelectedPagesRenumbered(document, page_indices) ==
    LET selected == LookupPages(document, page_indices)
    IN [j \in 1..Len(selected) |-> [selected[j] EXCEPT !.index = j]]

SelectedPages(document, page_indices) == LookupPages(document, page_indices)

(* The loop over page_splitting["parsed"], from group k on; st holds the
   files written so far, the log of the child Documents written and the
   exception raised; a group without one of its keys raises KeyError. *)
RECURSIVE SplitLoop(_, _, _, _)
SplitLoop(document, groups, k, st) ==
    IF k > Len(groups) THEN st
    ELSE IF groups[k].lacks # {} THEN [st EXCEPT !.raised = "KeyError"]
    ELSE LET zoning == groups[k].zoning
             zone == groups[k].zone
             selected_pages == SelectedPages(document, groups[k].pages)
             doc_zone == [document EXCEPT !.pages = selected_pages,
                                         !.zoning = zoning,
                                         !.zone = zone]
             docs == [st.interim EXCEPT ![zone] = <<doc_zone>>]
         IN IF selected_pages = <<>>
            THEN SplitLoop(document, groups, k + 1, st)
            ELSE SplitLoop(document, groups, k + 1,
                     [raised |-> st.raised,
                      interim |-> docs,
                      image_files |-> SaveImages(st.image_files, docs, zone),
                      emitted |-> Append(st.emitted,
                                      [group |-> k, zoning |-> zoning,
                                       zone |-> zone, document |-> doc_zone])])

(* Mutant: the last child Document is also saved at raw_path. *)
SplitDocumentsInPlace ==
    /\ raw # <<>>
    /\ page_split # <<>>
    /\ LET st == SplitLoop(raw[1], page_split[1].parsed, 1,
                     [raised |-> "", interim |-> interim,
                      image_files |-> image_files, emitted |-> <<>>])
       IN /\ returned' = Returned(st.raised)
          /\ interim' = st.interim
          /\ image_files' = st.image_files
          /\ emitted' = st.emitted
          /\ calls' = Len(st.emitted)
          /\ torn' = torn \ {st.emitted[j].zone : j \in 1..Len(st.emitted)}
          /\ raw' = IF st.emitted = <<>> THEN raw
                    ELSE <<st.emitted[Len(st.emitted)].document>>
    /\ op' = "split"
    /\ before' = Snapshot
    /\ UNCHANGED <<ocr, page_split, pdf, now, dirs, peer>>

SplitDocuments ==
    /\ raw # <<>>
    /\ page_split # <<>>
    /\ LET st == SplitLoop(raw[1], page_split[1].parsed, 1,
                     [raised |-> "", interim |-> interim,
                      image_files |-> image_files, emitted |-> <<>>])
       IN /\ returned' = Returned(st.raised)
          /\ interim' = st.interim
          /\ image_files' = st.image_files
          /\ emitted' = st.emitted
          /\ calls' = Len(st.emitted)
          /\ torn' = torn \ {st.emitted[j].zone : j \in 1..Len(st.emitted)}
    /\ op' = "split"
    /\ before' = Snapshot
    /\ UNCHANGED <<ocr, raw, page_split, pdf, now, dirs, peer>>

(* split_documents interrupted in the iteration of group j, which has pages
   to write. *)
SplitDocumentsInterrupted ==
    /\ raw # <<>>
    /\ page_split # <<>>
    /\ \E j \in 1..Len(Parsed), point \in InterruptPoints :
         LET st == SplitLoop(raw[1], SubSeq(Parsed, 1, j - 1), 1,
                       [raised |-> "", interim |-> interim,
                        image_files |-> image_files, emitted |-> <<>>])
             zone == Parsed[j].zone
             done == {st.emitted[i].zone : i \in 1..Len(st.emitted)}
         IN /\ st.raised = ""
            /\ Parsed[j].lacks = {}
            /\ SelectedPages(raw[1], Parsed[j].pages) # <<>>
            /\ interim' = IF point = "writing"
                          THEN [st.interim EXCEPT ![zone] = <<>>] ELSE st.interim
            /\ torn' = IF point = "writing"
                       THEN (torn \ done) \cup {zone} ELSE torn \ done
            /\ image_files' = st.image_files
            /\ emitted' = st.emitted
            /\ calls' = Len(st.emitted)
    /\ returned' = Returned("KeyboardInterrupt")
    /\ op' = "split"
    /\ before' = Snapshot
    /\ UNCHANGED <<ocr, raw, page_split, pdf, now, dirs, peer>>

(* Another document of the same city, handled by its own Transform
   instance: Transform(city, "dg").  Its raw_path and page_split_path are its
   own, its interim_dir is the city's.  Its OCR payload is one bare page. *)
PeerDocName == "dg"

PeerOcrResponseToDocument ==
    /\ peer' = [peer EXCEPT !.raw =
                   <<Document(NormalizedPages(<<[markdown |-> <<>>, images |-> <<>>,
                                                 dimensions |-> A3, lacks |-> {}]>>),
                              PeerDocName, "2024-01-01", "DG", City, None, None,
                              now)>>]
    /\ UNCHANGED <<ocr, raw, page_split, interim, image_files, pdf, now, op,
                   before, calls, emitted, returned, torn, dirs>>

(* split_documents of the other document, whose classification is one group
   of its page. *)
PeerSplitDocuments(labels) ==
    /\ peer.raw # <<>>
    /\ \E label \in labels :
         LET groups == <<[zoning |-> label[1], zone |-> label[2], pages |-> <<1>>,
                          lacks |-> {}]>>
             st == SplitLoop(peer.raw[1], groups, 1,
                       [raised |-> "", interim |-> interim,
                        image_files |-> image_files, emitted |-> <<>>])
         IN /\ interim' = st.interim
            /\ image_files' = st.image_files
            /\ torn' = torn \ {label[2]}
            /\ peer' = [peer EXCEPT !.written = @ \cup {label[2]}]
    /\ UNCHANGED <<ocr, raw, page_split, pdf, now, op, before, calls, emitted,
                   returned, dirs>>

(***************************************************************************)
(* table_utils.is_markdown_table                                           *)
(***************************************************************************)
(* str.split("\n") *)
RECURSIVE SplitLines(_)
SplitLines(s) ==
    IF \E i \in 1..Len(s) : s[i] = NL
    THEN LET i == CHOOSE i \in 1..Len(s) : s[i] = NL /\ \A j \in 1..(i - 1) : s[j] # NL
         IN <<SubSeq(s, 1, i - 1)>> \o SplitLines(SubSeq(s, i + 1, Len(s)))
    ELSE <<s>>

(* The first position from i on whose symbol is not in the class. *)
RECURSIVE SkipWhile(_, _, _)
SkipWhile(line, i, class) ==
    IF i <= Len(line) /\ line[i] \in class THEN SkipWhile(line, i + 1, class) ELSE i

(* Mutant: a row is a line that begins and ends with a pipe. *)
RowPatternTwoPipes(line) ==
    /\ Len(line) >= 2
    /\ line[1] = PIPE
    /\ line[Len(line)] = PIPE

(* re.compile(r"^\|.*\|.*\|$").match(line) *)
RowPattern(line) ==
    /\ Len(line) >= 3
    /\ line[1] = PIPE
    /\ line[Len(line)] = PIPE
    /\ \E i \in 2..(Len(line) - 1) : line[i] = PIPE

(* re.compile(r"^\|\s*[-:]+\s*\|").match(line) *)
SeparatorPattern(line) ==
    /\ Len(line) >= 1
    /\ line[1] = PIPE
    /\ LET a == SkipWhile(line, 2, {SP, NL})
           b == SkipWhile(line, a, {DASH, COLON})
           c == SkipWhile(line, b, {SP, NL})
       IN /\ b > a
          /\ c <= Len(line)
          /\ line[c] = PIPE

(* Mutant: the row and the separator must be different lines. *)
IsMarkdownTableDistinctLines(content) ==
    IF Strip(content) = <<>> THEN FALSE
    ELSE LET lines == SplitLines(Strip(content))
         IN IF Len(lines) < 2 THEN FALSE
            ELSE \E i, j \in 1..Len(lines) :
                    /\ i # j
                    /\ Strip(lines[i]) # <<>> /\ RowPattern(Strip(lines[i]))
                    /\ Strip(lines[j]) # <<>> /\ SeparatorPattern(Strip(lines[j]))

IsMarkdownTable(content) ==
    IF Strip(content) = <<>> THEN FALSE
    ELSE LET lines == SplitLines(Strip(content))
         IN IF Len(lines) < 2 THEN FALSE
            ELSE /\ \E i \in 1..Len(lines) :
                        Strip(lines[i]) # <<>> /\ RowPattern(Strip(lines[i]))
                 /\ \E i \in 1..Len(lines) :
                        Strip(lines[i]) # <<>> /\ SeparatorPattern(Strip(lines[i]))

(* is_markdown_table applied to a text, here the markdown of the first page
   of the OCR payload. *)
DetectTable ==
    /\ op = "ocr"
    /\ ocr.pages # <<>>
    /\ returned' = [raised |-> "", content |-> ocr.pages[1].markdown,
                    is_table |-> IsMarkdownTable(ocr.pages[1].markdown)]
    /\ op' = "detect"
    /\ UNCHANGED <<ocr, raw, page_split, interim, image_files, pdf, now, before,
                   calls, emitted, torn, dirs, peer>>

(***************************************************************************)
(* table_utils.pdf_page_to_base64 and replace_tables_with_images           *)
(***************************************************************************)
(* Mutant: the page number is not checked against the page count. *)
RenderFailsWhenMissing(page_num) == pdf = -1

(* pdf_page_to_base64 raises FileNotFoundError when the PDF is missing and
   IndexError when page_num is out of range. *)
RenderFails(page_num) == pdf = -1 \/ page_num < 0 \/ page_num >= pdf

PdfPageToBase64(page_num) ==
    [base64_str |-> "jpeg-" \o ToString(page_num), width |-> 3, height |-> 4]

(* Mutant: one name for every table image. *)
ImgNameOfTable(table_count) == "table.jpg"

(* f"table_{table_count}.jpg" *)
ImgName(table_count) == "table_" \o ToString(table_count) \o ".jpg"

(* The schema's Paragraph declares index and content only: reading
   para.source_ref raises AttributeError. *)
ParagraphHasSourceRef == FALSE

(* One paragraph of the loop over page.paragraphs.  st: the new paragraphs
   and images of the page, table_count, the pages in rendered_pages, the
   render calls made, the warnings printed, the image names generated, what
   became of each table paragraph, and whether an exception left the
   function. *)
TableLog(page, para, img_name, outcome) ==
    [page |-> page.index, para |-> para.index, img_name |-> img_name,
     outcome |-> outcome]

(* Mutant: a table paragraph whose page does not render is dropped. *)
ReplaceParagraphDroppingKept(st, page, para) ==
    LET table_count == st.table_count + 1
        img_name == ImgName(table_count)
        pdf_page_idx == page.index - 1
        cached == pdf_page_idx \in st.rendered_pages
        rendered == PdfPageToBase64(pdf_page_idx)
        table_image == Image(img_name, 0, 0, rendered.width, rendered.height,
                             rendered.base64_str)
    IN IF st.raised THEN st
       ELSE IF ~IsMarkdownTable(para.content)
       THEN [st EXCEPT !.new_paragraphs = Append(@, para)]
       ELSE IF ~cached /\ RenderFails(pdf_page_idx)
       THEN [st EXCEPT !.table_count = table_count,
                       !.renders = Append(@, pdf_page_idx),
                       !.warnings = @ + 1,
                       !.log = Append(@, TableLog(page, para, img_name, "kept"))]
       ELSE [st EXCEPT !.table_count = table_count,
                       !.renders = IF cached THEN @ ELSE Append(@, pdf_page_idx),
                       !.rendered_pages = @ \cup {pdf_page_idx},
                       !.log = Append(@, TableLog(page, para, img_name, "raised")),
                       !.new_images = Append(@, table_image),
                       !.raised = TRUE]

ReplaceParagraph(st, page, para) ==
    LET table_count == st.table_count + 1
        img_name == ImgName(table_count)
        pdf_page_idx == page.index - 1
        cached == pdf_page_idx \in st.rendered_pages
        rendered == PdfPageToBase64(pdf_page_idx)
        table_image == Image(img_name, 0, 0, rendered.width, rendered.height,
                             rendered.base64_str)
        new_para == Paragraph(para.index, <<ImageTag(img_name)>>)
    IN IF st.raised THEN st
       ELSE IF ~IsMarkdownTable(para.content)
       THEN [st EXCEPT !.new_paragraphs = Append(@, para)]
       ELSE IF ~cached /\ RenderFails(pdf_page_idx)
       THEN [st EXCEPT !.table_count = table_count,
                       !.renders = Append(@, pdf_page_idx),
                       !.warnings = @ + 1,
                       !.log = Append(@, TableLog(page, para, img_name, "kept")),
                       !.new_paragraphs = Append(@, para)]
       ELSE IF ~ParagraphHasSourceRef
       THEN [st EXCEPT !.table_count = table_count,
                       !.renders = IF cached THEN @ ELSE Append(@, pdf_page_idx),
                       !.rendered_pages = @ \cup {pdf_page_idx},
                       !.log = Append(@, TableLog(page, para, img_name, "raised")),
                       !.new_images = Append(@, table_image),
                       !.raised = TRUE]
       ELSE [st EXCEPT !.table_count = table_count,
                       !.renders = IF cached THEN @ ELSE Append(@, pdf_page_idx),
                       !.rendered_pages = @ \cup {pdf_page_idx},
                       !.log = Append(@, TableLog(page, para, img_name, "replaced")),
                       !.new_images = Append(@, table_image),
                       !.new_paragraphs = Append(@, new_para)]

RECURSIVE ReplaceParagraphs(_, _, _)
ReplaceParagraphs(st, page, paragraphs) ==
    IF paragraphs = <<>> THEN st
    ELSE ReplaceParagraphs(ReplaceParagraph(st, page, Head(paragraphs)),
                           page, Tail(paragraphs))

(* The loop over document.pages, from the page at position p on. *)
RECURSIVE ReplacePages(_, _)
ReplacePages(st, p) ==
    IF p > Len(st.document.pages) \/ st.raised THEN st
    ELSE LET page == st.document.pages[p]
             done == ReplaceParagraphs(
                         [st EXCEPT !.new_paragraphs = <<>>,
                                    !.new_images = page.images],
                         page, page.paragraphs)
         IN IF done.raised THEN done
            ELSE ReplacePages(
                     [done EXCEPT !.document.pages[p].paragraphs = done.new_paragraphs,
                                  !.document.pages[p].images = done.new_images],
                     p + 1)

ReplaceTablesWithImages(document) ==
    ReplacePages([document |-> document, table_count |-> 0, rendered_pages |-> {},
                  renders |-> <<>>, warnings |-> 0, log |-> <<>>, raised |-> FALSE,
                  new_paragraphs |-> <<>>, new_images |-> <<>>], 1)

(* The transform step of the Bordeaux pipeline: the Document at raw_path is
   copied to interim_dir/<zone>.json, its tables are replaced, the result
   is saved and its images are exported.  An exception of
   replace_tables_with_images leaves the copy. *)
CopyAndReplaceTables ==
    /\ raw # <<>>
    /\ raw[1].zone \in Zones
    /\ LET zone == raw[1].zone
           copied == [interim EXCEPT ![zone] = raw]
           result == ReplaceTablesWithImages(raw[1])
           saved == [interim EXCEPT ![zone] = <<result.document>>]
       IN /\ interim' = IF result.raised THEN copied ELSE saved
          /\ image_files' = IF result.raised THEN image_files
                            ELSE SaveImages(image_files, saved, zone)
          /\ calls' = Len(result.renders)
          /\ returned' = [raised |-> IF result.raised THEN "AttributeError" ELSE "",
                          document |-> result.document,
                          renders |-> result.renders,
                          warnings |-> result.warnings,
                          log |-> result.log]
          /\ torn' = torn \ {zone}
    /\ op' = "tables"
    /\ before' = Snapshot
    /\ UNCHANGED <<ocr, raw, page_split, pdf, now, emitted, dirs, peer>>

(***************************************************************************)
(* Specifications.                                                         *)
(***************************************************************************)
(* The source PDF is missing or has one page. *)
PdfSizes == {-1, 1}

Init ==
    /\ ocr = [pages |-> <<>>, date_of_document |-> "2024-01-01",
              document_type |-> "PLU", lacks |-> {}]
    /\ raw = <<>>
    /\ page_split = <<>>
    /\ interim = [z \in Zones |-> <<>>]
    /\ image_files = [k \in Zones \X Names |-> <<>>]
    /\ pdf \in PdfSizes
    /\ now = 0
    /\ op = "ocr"
    /\ before = NoFiles
    /\ calls = 0
    /\ emitted = <<>>
    /\ returned = Returned("")
    /\ torn = {}
    /\ dirs = {}
    /\ peer = [raw |-> <<>>, written |-> {}]

InitNoPdf == Init /\ pdf = -1
InitOnePagePdf == Init /\ pdf = 1

(* The whole pipeline, on small inputs: a page holds nothing or a table,
   the document Few images, the classification Few groups and Few page
   indices; the source PDF has one page, so the tables of page 1 render and
   those of later pages do not. *)
TableBlock == <<PIPE, DASH, PIPE, PIPE, NL, TXT>>

Next ==
    \/ OcrPage(MaxPages, {A4})
    \/ OcrImage(Few, {"a"}, {"p0"})
    \/ OcrBlock({TableBlock})
    \/ OcrResponseToDocument("UA")
    \/ CleanDocument
    \/ ClassifyGroup(Few, {<<"Z1", "UB">>})
    \/ ClassifyPage(Few)
    \/ SplitDocuments
    \/ CopyAndReplaceTables

Spec == InitOnePagePdf /\ [][Next]_vars

(* Deduplication of images: documents of pages without text. *)
NextDedup ==
    \/ OcrPage(MaxPages, {A4})
    \/ OcrImage(MaxImages, Names, PixelData)
    \/ OcrResponseToDocument(None)
    \/ CleanDocument

SpecDedup == InitNoPdf /\ [][NextDedup]_vars

(* Repeated deduplication: documents of up to four images of two names and
   of two unlike pictures. *)
NextIdem ==
    \/ OcrPage(MaxPages, {A4})
    \/ OcrImage(MaxImages + 1, {"a", "b"}, {"p0", "p2"})
    \/ OcrResponseToDocument(None)
    \/ CleanDocument

SpecIdem == InitNoPdf /\ [][NextIdem]_vars

(* References to images in the text: documents of few images, with text. *)
RefLexemes == {<<TXT>>, <<SP>>, <<NL, NL>>} \cup {<<ImageTag("a")>>}

NextRefs ==
    \/ OcrPage(MaxPages, {A4})
    \/ OcrImage(MaxRefImages, Names, {"p0"})
    \/ OcrText(MaxLex, RefLexemes)
    \/ OcrResponseToDocument(None)
    \/ CleanDocument

SpecRefs == InitNoPdf /\ [][NextRefs]_vars

(* Zone segmentation: documents of bare pages, any classification over
   three (zoning, zone) pairs, two of them of the same zone. *)
SplitLabels == {<<"Z1", "UA">>, <<"Z1", "UB">>, <<"Z2", "UA">>}

NextSplit ==
    \/ OcrPage(MaxPages, {A4})
    \/ OcrResponseToDocument(None)
    \/ ClassifyGroup(MaxGroups, SplitLabels)
    \/ ClassifyPage(MaxRefs)
    \/ SplitDocuments

SpecSplit == InitNoPdf /\ [][NextSplit]_vars

(* Table substitution: documents of up to MaxParagraphs paragraphs, each a
   table or a word; the source PDF is missing or has one page. *)
NextTables ==
    \/ OcrPage(MaxPages, {A4})
    \/ OcrParagraph(MaxParagraphs, {TableBlock, <<TXT>>})
    \/ OcrResponseToDocument("UA")
    \/ CopyAndReplaceTables

SpecTables == Init /\ [][NextTables]_vars

(* Table substitution on pages that hold images as well. *)
NextTableFrame ==
    \/ OcrPage(MaxPages, {A4})
    \/ OcrImage(MaxRefImages, {"a", "b"}, {"p0"})
    \/ OcrParagraph(MaxFrameParagraphs, {TableBlock, <<TXT>>})
    \/ OcrResponseToDocument("UA")
    \/ CopyAndReplaceTables

SpecTableFrame == Init /\ [][NextTableFrame]_vars

(* Normalization: pages of two sizes, with images and any text of words,
   blanks and newlines. *)
NormLexemes == {<<TXT>>, <<SP>>, <<NL>>}

NextNormalize ==
    \/ OcrPage(MaxPages, {A4, A3})
    \/ OcrImage(MaxRefImages, {"a", "b"}, {"p0"})
    \/ OcrText(MaxLex, NormLexemes)
    \/ OcrResponseToDocument(None)

SpecNormalize == InitNoPdf /\ [][NextNormalize]_vars

(* Time stamps: the clock advances between the stages. *)
NextStamp ==
    \/ OcrPage(MaxPages, {A4})
    \/ OcrResponseToDocument(None)
    \/ Tick
    \/ ClassifyGroup(Few, SplitLabels)
    \/ ClassifyPage(MaxRefs)
    \/ SplitDocuments

SpecStamp == InitNoPdf /\ [][NextStamp]_vars

(* Image export: pages with images of two names and two pictures, one zone. *)
NextExport ==
    \/ OcrPage(MaxPages, {A4})
    \/ OcrImage(MaxRefImages, {"a", "b"}, {"p0", "p1"})
    \/ OcrResponseToDocument(None)
    \/ ClassifyGroup(Few, {<<"Z1", "UA">>})
    \/ ClassifyPage(MaxPages)
    \/ SplitDocuments

SpecExport == InitNoPdf /\ [][NextExport]_vars

(* Classification: the classifier is run on the normalized Document, with
   or without a classification file already there. *)
NextClassify ==
    \/ OcrPage(MaxPages, {A4, A3})
    \/ OcrResponseToDocument(None)
    \/ ClassifyGroup(Few, SplitLabels)
    \/ ClassifyPage(Few)
    \/ PagesSplitting(ClassifierResponses)
    \/ SplitDocuments

SpecClassify == InitNoPdf /\ [][NextClassify]_vars

(* What deduplication leaves alone: images of two names and one picture,
   with text. *)
FrameBlocks == {<<ImageTag("a")>>, <<ImageTag("a"), TXT>>, <<SP, TXT>>}

NextFrame ==
    \/ OcrPage(MaxPages, {A4})
    \/ OcrImage(MaxRefImages, {"a", "b"}, {"p0"})
    \/ OcrParagraph(MaxParagraphs, FrameBlocks)
    \/ OcrResponseToDocument(None)
    \/ CleanDocument

SpecFrame == InitNoPdf /\ [][NextFrame]_vars

(* Two documents of one city, their stages interleaved. *)
NextPeers ==
    \/ OcrPage(MaxPages, {A4})
    \/ OcrResponseToDocument(None)
    \/ ClassifyGroup(Few, SplitLabels)
    \/ ClassifyPage(Few)
    \/ SplitDocuments
    \/ PeerOcrResponseToDocument
    \/ PeerSplitDocuments(SplitLabels)

SpecPeers == InitNoPdf /\ [][NextPeers]_vars

(* Metadata: payloads of any date and type, or without them. *)
Dates == {"2024-01-01", "2025-06-30"}
DocumentTypes == {"PLU", "DG", "PLU_AND_DG"}

NextMetadata ==
    \/ OcrPage(MaxPages, {A4, A3})
    \/ OcrDescribe(Dates, DocumentTypes)
    \/ OcrOmitMetadata(MetadataKeys)
    \/ OcrResponseToDocument(None)

SpecMetadata == InitNoPdf /\ [][NextMetadata]_vars

(* Malformed payloads: pages or groups without one of their fields. *)
MalformedLabels == {<<"Z1", "UA">>, <<"Z1", "UB">>}

NextMalformed ==
    \/ OcrPage(MaxPages, {A4})
    \/ OcrOmit(PageKeys)
    \/ OcrResponseToDocument(None)
    \/ ClassifyGroup(MaxGroups, MalformedLabels)
    \/ ClassifyPage(MaxGroups)
    \/ ClassifyOmit(GroupKeys)
    \/ SplitDocuments

SpecMalformed == InitNoPdf /\ [][NextMalformed]_vars

(* Interruptions: each stage may be cut short while it computes or while it
   writes. *)
NextCrash ==
    \/ OcrPage(MaxPages, {A4})
    \/ OcrImage(Few, {"a"}, {"p0"})
    \/ OcrResponseToDocument(None)
    \/ OcrResponseToDocumentInterrupted(None)
    \/ CleanDocument
    \/ CleanDocumentInterrupted
    \/ ClassifyGroup(Few, {<<"Z1", "UA">>})
    \/ ClassifyPage(Few)
    \/ SplitDocuments
    \/ SplitDocumentsInterrupted

SpecCrash == InitNoPdf /\ [][NextCrash]_vars

(* Table detection: every text of up to MaxCells symbols. *)
CellLexemes == {<<PIPE>>, <<DASH>>, <<COLON>>, <<SP>>, <<NL>>, <<TXT>>}

NextDetect ==
    \/ OcrPage(1, {A4})
    \/ OcrText(MaxCells, CellLexemes)
    \/ DetectTable

SpecDetect == InitNoPdf /\ [][NextDetect]_vars

(***************************************************************************)
(* What the claims speak of.                                               *)
(***************************************************************************)
(* The image occurrences of a document: <<page position, image position>>. *)
Occurrences(document) ==
    UNION {{<<p, i>> : i \in 1..Len(document.pages[p].images)} :
              p \in 1..Len(document.pages)}

ImageAt(document, o) == document.pages[o[1]].images[o[2]]

Distance(document, o1, o2) ==
    Hamming(Phash(ImageAt(document, o1).image_base64),
            Phash(ImageAt(document, o2).image_base64))

AllImages(document) ==
    UNION {Range(document.pages[p].images) : p \in 1..Len(document.pages)}

Cleaned == op = "clean"
DocBefore == before.raw[1]
DocAfter == raw[1]

(* C3: after clean_document, both images of every pair of distinct images
   whose hashes differ in fewer than 5 bits are absent from every page. *)
C3_NearDuplicatesRemoved ==
    Cleaned =>
        \A o1 \in Occurrences(DocBefore), o2 \in Occurrences(DocBefore) :
            (o1 # o2 /\ Distance(DocBefore, o1, o2) < 5) =>
                /\ ImageAt(DocBefore, o1) \notin AllImages(DocAfter)
                /\ ImageAt(DocBefore, o2) \notin AllImages(DocAfter)

(* C7: after clean_document, an image whose hash differs in at least 5 bits
   from the hash of every other image is still in the image list of its
   page. *)
IsUnique(document, o) ==
    \A o2 \in Occurrences(document) \ {o} : Distance(document, o, o2) >= 5

C7_UniqueImagesKept ==
    Cleaned =>
        /\ Len(DocAfter.pages) = Len(DocBefore.pages)
        /\ \A o \in Occurrences(DocBefore) :
               IsUnique(DocBefore, o) =>
                   /\ DocAfter.pages[o[1]].index = DocBefore.pages[o[1]].index
                   /\ ImageAt(DocBefore, o) \in Range(DocAfter.pages[o[1]].images)

C7_Witness ==
    /\ Cleaned
    /\ \E o \in Occurrences(DocBefore) :
           /\ IsUnique(DocBefore, o)
           /\ ImageAt(DocBefore, o) \in Range(DocAfter.pages[o[1]].images)
    /\ CountImages(DocAfter.pages) < CountImages(DocBefore.pages)

Count(s, x) == Cardinality({i \in 1..Len(s) : s[i] = x})

(* The images clean_document removed from the page at position p. *)
RemovedFrom(p) ==
    {img \in Range(DocBefore.pages[p].images) :
        Count(DocAfter.pages[p].images, img) < Count(DocBefore.pages[p].images, img)}

(* C4: of two pages with the same reconstructed text, clean_document keeps
   at most one. *)
C4_DuplicatePagesRemoved ==
    Cleaned =>
        \A p \in 1..Len(DocBefore.pages), q \in 1..Len(DocBefore.pages) :
            (p < q /\ JoinBlank(DocBefore.pages[p].paragraphs)
                        = JoinBlank(DocBefore.pages[q].paragraphs)) =>
                ~({DocBefore.pages[p].index, DocBefore.pages[q].index}
                      \subseteq PageIndices(DocAfter))

(* C5: after clean_document no paragraph holds the reference ![name](name)
   of an image that was removed; stated here for the paragraphs of the page
   that owned the image, the case the claim singles out. *)
C5_NoStaleReference ==
    Cleaned =>
        \A p \in 1..Len(DocBefore.pages) :
            \A img \in RemovedFrom(p) :
                \A k \in 1..Len(DocAfter.pages[p].paragraphs) :
                    ~Contains(DocAfter.pages[p].paragraphs[k].content,
                              ImageTag(img.name_img))

(* C6: after clean_document every paragraph with empty content is a
   paragraph that deduplication did not touch: a paragraph emptied by the
   removal of a reference has been deleted. *)
C6_EmptiedParagraphsDeleted ==
    Cleaned =>
        \A p \in 1..Len(DocAfter.pages) :
            \A k \in 1..Len(DocAfter.pages[p].paragraphs) :
                DocAfter.pages[p].paragraphs[k].content = <<>> =>
                    DocAfter.pages[p].paragraphs[k]
                        \in Range(DocBefore.pages[p].paragraphs)

Segmented == op = "split"

(* The indices of a group's page list that are page indices of the parent,
   in the order of the list. *)
Resolved(k) ==
    SelectSeq(Parsed[k].pages, LAMBDA page_idx : page_idx \in PageIndices(raw[1]))

EmittedFor(k) == {e \in Range(emitted) : e.group = k}

IndexList(pages) == [j \in 1..Len(pages) |-> pages[j].index]

(* C8: split_documents writes a child Document for a group exactly when
   one of the group's indices is a page index of the parent; the child's
   pages are the parent's pages of the group's index list, in the list's
   order, the absent indices skipped; a group resolving to no page writes
   nothing. *)
C8_ZoneSelection ==
    Segmented =>
        /\ \A k \in 1..Len(Parsed) :
               /\ (Resolved(k) # <<>>) <=> (EmittedFor(k) # {})
               /\ \A e \in EmittedFor(k) :
                      /\ IndexList(e.document.pages) = Resolved(k)
                      /\ Range(e.document.pages) \subseteq Range(raw[1].pages)
                      /\ e.zone = Parsed[k].zone
        /\ (\A k \in 1..Len(Parsed) : Resolved(k) = <<>>) =>
               /\ interim = before.interim
               /\ image_files = before.image_files

C8_Witness ==
    /\ Segmented
    /\ \E k \in 1..Len(Parsed) :
           /\ Parsed[k].pages = <<2, 1>>
           /\ \E e \in EmittedFor(k) : IndexList(e.document.pages) = <<2, 1>>
    /\ \E k \in 1..Len(Parsed) :
           /\ Parsed[k].pages = <<Len(raw[1].pages) + 1>>
           /\ EmittedFor(k) = {}

(* C9: groups with distinct (zoning, zone) pairs are written at distinct
   paths, so the child Document of every group is still on disk when
   split_documents returns. *)
DistinctGroups ==
    \A k1 \in 1..Len(Parsed), k2 \in 1..Len(Parsed) :
        k1 # k2 => <<Parsed[k1].zoning, Parsed[k1].zone>>
                       # <<Parsed[k2].zoning, Parsed[k2].zone>>

C9_DisjointOutputPaths ==
    (Segmented /\ DistinctGroups) =>
        \A e \in Range(emitted) : interim[e.zone] = <<e.document>>

Normalized == op = "normalize"
Substituted == op = "tables"

ResolvableGroups == {k \in 1..Len(Parsed) : Resolved(k) # <<>>}

C2_Idempotent ==
    /\ Normalized =>
           raw = <<NormalizedDocument(ocr, raw[1].zone)>>
    /\ Cleaned => CleanedDocument(DocAfter) = DocAfter
    /\ Segmented =>
           LET again == SplitLoop(raw[1], Parsed, 1,
                            [interim |-> interim, image_files |-> image_files,
                             emitted |-> <<>>])
           IN again.interim = interim /\ again.image_files = image_files

(* C10: no stage changes the index of a page: the normalizer run again, the
   deduplicator and the table substituter keep the indices of the pages,
   and the segmenter leaves the parent as it is and puts pages of the
   parent, with their index, in the children. *)
C10_PageIndexStable ==
    /\ (Normalized /\ before.raw # <<>>) =>
           IndexList(raw[1].pages) = IndexList(before.raw[1].pages)
    /\ Cleaned => IndexList(DocAfter.pages) = IndexList(DocBefore.pages)
    /\ Substituted =>
           /\ raw = before.raw
           /\ IndexList(interim[raw[1].zone][1].pages) = IndexList(raw[1].pages)
    /\ Segmented =>
           /\ raw = before.raw
           /\ \A e \in Range(emitted) :
                  Range(e.document.pages) \subseteq Range(raw[1].pages)

C10_Witness ==
    /\ Segmented
    /\ \E e \in Range(emitted) : e.document.pages[1].index = 2
    /\ interim["UA"] # <<>>

(***************************************************************************)
(* Table detection.                                                        *)
(***************************************************************************)
Detected == op = "detect"

NonSpace(s) == {i \in 1..Len(s) : ~IsSpace(s[i])}

SameLine(s, i, j) == \A m \in i..j : s[m] # NL

(* The lines of s with their surrounding whitespace stripped, as pairs of
   the positions of their first and last symbol; blank lines have none. *)
StrippedLines(s) ==
    {l \in NonSpace(s) \X NonSpace(s) :
        /\ l[1] <= l[2]
        /\ SameLine(s, l[1], l[2])
        /\ \A k \in 1..(l[1] - 1) : SameLine(s, k, l[1]) => IsSpace(s[k])
        /\ \A k \in (l[2] + 1)..Len(s) : SameLine(s, l[2], k) => IsSpace(s[k])}

IsRow(s, l, minPipes) ==
    /\ s[l[1]] = PIPE
    /\ s[l[2]] = PIPE
    /\ Cardinality({k \in l[1]..l[2] : s[k] = PIPE}) >= minPipes

IsSeparator(s, l, closingPipe) ==
    /\ s[l[1]] = PIPE
    /\ \E d \in (l[1] + 1)..l[2] : \E e \in d..l[2] :
         /\ \A k \in (l[1] + 1)..(d - 1) : IsSpace(s[k])
         /\ \A k \in d..e : s[k] \in {DASH, COLON}
         /\ closingPipe =>
              \E c \in (e + 1)..l[2] :
                 /\ s[c] = PIPE
                 /\ \A k \in (e + 1)..(c - 1) : IsSpace(s[k])

TableShape(s, minPipes, closingPipe) ==
    /\ NonSpace(s) # {}
    /\ \E i \in NonSpace(s), k \in 1..Len(s), j \in NonSpace(s) :
         i < k /\ k < j /\ s[k] = NL
    /\ \E l \in StrippedLines(s) : IsRow(s, l, minPipes)
    /\ \E l \in StrippedLines(s) : IsSeparator(s, l, closingPipe)

(* C11, as stated: is_markdown_table is true exactly when the trimmed content
   spans two lines or more, a stripped line begins and ends with a pipe and
   holds at least two pipes, and a stripped line begins with a pipe followed
   by dash/colon characters. *)
C11_TableDetectionTwoPipes ==
    Detected => (returned.is_table <=> TableShape(returned.content, 2, FALSE))

(* C11, amended: is_markdown_table is true exactly when the trimmed content
   spans two lines or more, a stripped line begins and ends with a pipe and
   holds at least three pipes, and a stripped line begins with a pipe,
   optional blanks, one or more dash/colon characters, optional blanks and a
   second pipe. *)
C11_TableDetection ==
    Detected => (returned.is_table <=> TableShape(returned.content, 3, TRUE))

(* A text of two lines detected as a table, and one with a row of two pipes
   over a separator that is not. *)
C11_Witness ==
    /\ Detected
    /\ returned.is_table
    /\ returned.content = <<TXT, NL, PIPE, COLON, PIPE, PIPE>>

C11_WitnessTwoPipes ==
    /\ Detected
    /\ ~returned.is_table
    /\ returned.content = <<PIPE, TXT, PIPE, NL, PIPE, DASH>>

(***************************************************************************)
(* Table substitution.                                                     *)
(***************************************************************************)
(* The Document handed to replace_tables_with_images and the one it left. *)
TablesIn == raw[1]
TablesOut == returned.document

(* The table paragraphs of the Document, as <<position of the page, position
   of the paragraph>>. *)
TableParagraphs(document) ==
    {t \in (1..Len(document.pages)) \X (1..MaxParagraphs + 1) :
        /\ t[2] <= Len(document.pages[t[1]].paragraphs)
        /\ IsMarkdownTable(document.pages[t[1]].paragraphs[t[2]].content)}

(* The source page of the page renders: the PDF is there and has that page. *)
Renders(page) == pdf # -1 /\ page.index - 1 >= 0 /\ page.index - 1 < pdf

GeneratedNames == {ImgName(n) : n \in 1..(MaxParagraphs + 1)}

(* C12: after replace_tables_with_images, every table paragraph of a page
   whose source page renders holds, at the same position and with the same
   index, the reference ![name](name) of a generated image, and exactly one
   image of that name, spanning the rendered page, was appended to the
   images of the page. *)
C12_TableSubstituted ==
    Substituted =>
        \A t \in TableParagraphs(TablesIn) :
            LET page == TablesIn.pages[t[1]]
                saved == interim[TablesIn.zone][1].pages[t[1]]
            IN Renders(page) =>
                 \E name \in GeneratedNames :
                    /\ saved.paragraphs[t[2]] =
                           Paragraph(page.paragraphs[t[2]].index, <<ImageTag(name)>>)
                    /\ Len(saved.images) > Len(page.images)
                    /\ SubSeq(saved.images, 1, Len(page.images)) = page.images
                    /\ Cardinality({i \in 1..Len(saved.images) :
                                       saved.images[i].name_img = name}) = 1
                    /\ \A i \in 1..Len(saved.images) :
                          saved.images[i].name_img = name =>
                              /\ saved.images[i].top_left_x = 0
                              /\ saved.images[i].top_left_y = 0
                              /\ saved.images[i].bottom_right_x =
                                     PdfPageToBase64(page.index - 1).width
                              /\ saved.images[i].bottom_right_y =
                                     PdfPageToBase64(page.index - 1).height

(* C15: the substitution of a table paragraph of the Document model, which
   carries no source reference, completes without error. *)
C15_SubstitutionCompletes ==
    Substituted => returned.raised = ""

(* C13: a table paragraph whose source page does not render (PDF missing, or
   page out of range) keeps its index and content and gets no image; when no
   table paragraph is on a page that renders, the run returns, has warned
   once for each table paragraph, and the Document saved is the one read. *)
C13_RenderFailureRecovery ==
    Substituted =>
        /\ \A t \in TableParagraphs(TablesIn) :
              ~Renders(TablesIn.pages[t[1]]) =>
                  /\ TablesOut.pages[t[1]].paragraphs[t[2]] =
                         TablesIn.pages[t[1]].paragraphs[t[2]]
                  /\ TablesOut.pages[t[1]].images = TablesIn.pages[t[1]].images
        /\ (\A t \in TableParagraphs(TablesIn) : ~Renders(TablesIn.pages[t[1]])) =>
              /\ returned.raised = ""
              /\ returned.warnings = Cardinality(TableParagraphs(TablesIn))
              /\ interim[TablesIn.zone] = <<TablesIn>>

(* Two table paragraphs of a page out of the PDF's range, the second followed
   by another paragraph: both are kept and the run goes on. *)
C13_Witness ==
    /\ Substituted
    /\ pdf = 1
    /\ Len(TablesIn.pages) = 2
    /\ TableParagraphs(TablesIn) = {<<2, 1>>, <<2, 2>>}
    /\ Len(TablesIn.pages[2].paragraphs) = 3
    /\ returned.warnings = 2
    /\ returned.raised = ""

(* C14: one run of replace_tables_with_images calls pdf_page_to_base64 at
   most once for each page. *)
C14_RenderOnce ==
    Substituted =>
        \A i, j \in 1..Len(returned.renders) :
            returned.renders[i] = returned.renders[j] => i = j

(* C16: the image names generated in one run of replace_tables_with_images
   are pairwise distinct, and no two paragraphs of the Document it leaves
   refer to the same generated name. *)
C16_UniqueImageNames ==
    Substituted =>
        /\ \A i, j \in 1..Len(returned.log) :
              returned.log[i].img_name = returned.log[j].img_name => i = j
        /\ \A name \in {returned.log[i].img_name : i \in 1..Len(returned.log)} :
              Cardinality({t \in (1..Len(TablesOut.pages)) \X (1..MaxParagraphs + 1) :
                              /\ t[2] <= Len(TablesOut.pages[t[1]].paragraphs)
                              /\ Contains(TablesOut.pages[t[1]].paragraphs[t[2]].content,
                                          ImageTag(name))}) <= 1

(* A run that generated three names, on two pages, none of which rendered. *)
C16_Witness ==
    /\ Substituted
    /\ Len(returned.log) = 3
    /\ {returned.log[i].page : i \in 1..3} = {1, 2}
    /\ returned.warnings = 3

(***************************************************************************)
(* Normalization.                                                          *)
(***************************************************************************)
Returns == returned.raised = ""

(* C17: the Document made of an OCR result of k pages has k pages; the page
   at position n (from 1) has index n and the images and dimensions of the
   OCR page at that position. *)
C17_PageIndexing ==
    (Normalized /\ Returns) =>
        /\ Len(raw[1].pages) = Len(ocr.pages)
        /\ \A n \in 1..Len(ocr.pages) :
              /\ raw[1].pages[n].index = n
              /\ raw[1].pages[n].images = ocr.pages[n].images
              /\ raw[1].pages[n].dimensions = ocr.pages[n].dimensions

(* Two pages of different sizes, the second with two images. *)
C17_Witness ==
    /\ Normalized
    /\ Returns
    /\ Len(raw[1].pages) = 2
    /\ raw[1].pages[1].dimensions = A3
    /\ raw[1].pages[2].dimensions = A4
    /\ Len(raw[1].pages[2].images) = 2

NonEmpty(segment) == segment # <<>>

(* C18: the paragraphs of a page are the non-empty segments of its markdown
   split on two newlines, numbered from 1 in that order, untrimmed; no
   paragraph has empty content. *)
C18_NonEmptyParagraphs ==
    (Normalized /\ Returns) =>
        \A n \in 1..Len(ocr.pages) :
            LET segments == SelectSeq(SplitBlank(ocr.pages[n].markdown), NonEmpty)
            IN raw[1].pages[n].paragraphs =
                   [k \in 1..Len(segments) |-> Paragraph(k, segments[k])]

(***************************************************************************)
(* Malformed payloads and interruptions.                                   *)
(***************************************************************************)
FilesUntouched ==
    /\ raw = before.raw
    /\ page_split = before.page_split
    /\ interim = before.interim
    /\ image_files = before.image_files

(* C19: ocr_response_to_document on a payload with a page lacking a field,
   and split_documents on a classification with a group lacking a field,
   raise and have created or modified no file. *)
C19_NoPartialCheckpoint ==
    /\ (Normalized /\ \E n \in 1..Len(ocr.pages) : ocr.pages[n].lacks # {}) =>
          ~Returns /\ FilesUntouched
    /\ (Segmented /\ \E k \in 1..Len(Parsed) : Parsed[k].lacks # {}) =>
          ~Returns /\ FilesUntouched

Interrupted == returned.raised = "KeyboardInterrupt"

(* C20: after a stage was interrupted, the files it reads are as they were
   and readable: raw_path for clean_document, raw_path and page_split_path
   for split_documents. *)
C20_InputsSurviveInterruption ==
    /\ (Cleaned /\ Interrupted) => raw = before.raw /\ "raw" \notin torn
    /\ (Segmented /\ Interrupted) =>
          /\ raw = before.raw /\ "raw" \notin torn
          /\ page_split = before.page_split /\ "page_split" \notin torn

(***************************************************************************)
(* Metadata of the normalized Document.                                    *)
(***************************************************************************)
(* What the caller knows of the document: its type and the date of the
   directory it was found in. *)
CallerMetadata == [date_of_document |-> "2024-01-01", document_type |-> "PLU"]

(* C26, as stated: the normalizer succeeds whether or not the payload holds
   date_of_document and document_type, and the Document's date, type and
   city are the caller's whatever the payload holds. *)
C26_MetadataFromCaller ==
    Normalized =>
        /\ Returns
        /\ raw[1].date_of_document = CallerMetadata.date_of_document
        /\ raw[1].document_type = CallerMetadata.document_type
        /\ raw[1].city = City

(* C26, amended: the Document's name and city are those of the Transform
   instance and its date_of_document and document_type are those of the OCR
   payload; on a payload without one of them the normalizer raises KeyError
   and writes nothing. *)
C26_MetadataFromPayload ==
    Normalized =>
        /\ ocr.lacks = {} =>
              /\ Returns
              /\ raw[1].name_of_document = DocName
              /\ raw[1].city = City
              /\ raw[1].date_of_document = ocr.date_of_document
              /\ raw[1].document_type = ocr.document_type
        /\ ocr.lacks # {} =>
              /\ returned.raised = "KeyError"
              /\ FilesUntouched

(* A payload of another date and type than the caller's, normalized. *)
C26_Witness ==
    /\ Normalized
    /\ Returns
    /\ Len(raw[1].pages) = 2
    /\ raw[1].date_of_document = "2025-06-30"
    /\ raw[1].document_type = "DG"

(***************************************************************************)
(* Zone segmentation: the parent, the children and their images.           *)
(***************************************************************************)
(* C22: split_documents leaves the parent Document's file at raw_path and
   the classification file as they were, whatever the classification. *)
C22_ParentUnchanged ==
    Segmented =>
        /\ raw = before.raw
        /\ page_split = before.page_split
        /\ {"raw", "page_split"} \cap torn = {}

(* Two child Documents written, one of them of a proper part of the pages. *)
C22_Witness ==
    /\ Segmented
    /\ Returns
    /\ Len(emitted) = 2
    /\ Len(raw[1].pages) = 2
    /\ \E j \in 1..2 : Len(emitted[j].document.pages) = 1

(* C23: each child Document written by split_documents has the zoning and
   the zone of its group and a modified_at of the time of the segmentation. *)
C23_ChildStamped ==
    Segmented =>
        \A j \in 1..Len(emitted) :
            /\ emitted[j].document.zoning = Parsed[emitted[j].group].zoning
            /\ emitted[j].document.zone = Parsed[emitted[j].group].zone
            /\ emitted[j].document.modified_at = now

UniqueIndices(document) ==
    \A i, j \in 1..Len(document.pages) :
        document.pages[i].index = document.pages[j].index => i = j

(* C24: no two pages of a persisted Document (the parent at raw_path, a
   child under interim_dir) have the same index. *)
C24_UniquePageIndices ==
    /\ raw # <<>> => UniqueIndices(raw[1])
    /\ \A z \in Zones : interim[z] # <<>> => UniqueIndices(interim[z][1])

(* C25: after split_documents, each image of each page of a child Document
   it persisted has its file under the zone, holding the image's bytes. *)
C25_ImagesExported ==
    Segmented =>
        \A j \in 1..Len(emitted) :
            LET zone == emitted[j].zone
                child == interim[zone][1]
            IN \A p \in 1..Len(child.pages) :
                  \A i \in 1..Len(child.pages[p].images) :
                      image_files[<<zone, child.pages[p].images[i].name_img>>] =
                          <<B64Decode(child.pages[p].images[i].image_base64)>>

(***************************************************************************)
(* The classification hand-off.                                            *)
(***************************************************************************)
Classified == op = "classify"

(* C28: after pages_splitting, page_split_path is a regular file holding the
   classifier's response; the classifier was called at most once. *)
C28_ClassificationSaved ==
    Classified =>
        /\ Returns
        /\ calls <= 1
        /\ page_split = <<returned.response>>
        /\ "page_split" \notin dirs

(***************************************************************************)
(* Two documents.                                                          *)
(***************************************************************************)
(* The files under interim_dir written by the last split_documents. *)
WrittenZones == {emitted[j].zone : j \in 1..Len(emitted)}

(* C21: the files written for two documents are disjoint, and the files of
   the child Documents of the one hold what its split_documents wrote,
   whatever the other did in between or after. *)
C21_DocumentsIsolated ==
    Segmented =>
        /\ WrittenZones \cap peer.written = {}
        /\ \A j \in 1..Len(emitted) :
              (\A k \in (j + 1)..Len(emitted) : emitted[k].zone # emitted[j].zone)
                  => interim[emitted[j].zone] = <<emitted[j].document>>

(***************************************************************************)
(* What deduplication and table substitution leave alone.                  *)
(***************************************************************************)
(* The names of the images clean_document removed, from any page. *)
RemovedNames ==
    UNION {{img.name_img : img \in RemovedFrom(p)} : p \in 1..Len(DocBefore.pages)}

HoldsRemoved(content) == \E name \in RemovedNames : Contains(content, ImageTag(name))

(* C27: clean_document keeps the number and the order of the pages, leaves
   as it is every paragraph that does not hold the reference of a removed
   image, and changes no paragraph of a page it removed no image from. *)
C27_CleanFrame ==
    (Cleaned /\ Returns) =>
        /\ Len(DocAfter.pages) = Len(DocBefore.pages)
        /\ \A p \in 1..Len(DocBefore.pages) :
              /\ DocAfter.pages[p].index = DocBefore.pages[p].index
              /\ Len(DocAfter.pages[p].paragraphs) = Len(DocBefore.pages[p].paragraphs)
              /\ \A q \in 1..Len(DocBefore.pages[p].paragraphs) :
                    ~HoldsRemoved(DocBefore.pages[p].paragraphs[q].content) =>
                        DocAfter.pages[p].paragraphs[q] = DocBefore.pages[p].paragraphs[q]
              /\ RemovedFrom(p) = {} =>
                    DocAfter.pages[p].paragraphs = DocBefore.pages[p].paragraphs

(* An image was removed from a page and its reference from one paragraph,
   next to a paragraph of blanks that holds no reference and was kept. *)
C27_Witness ==
    /\ Cleaned
    /\ Returns
    /\ \E p \in 1..Len(DocBefore.pages) :
          /\ RemovedFrom(p) # {}
          /\ \E q, r \in 1..Len(DocBefore.pages[p].paragraphs) :
                /\ HoldsRemoved(DocBefore.pages[p].paragraphs[q].content)
                /\ DocAfter.pages[p].paragraphs[q] # DocBefore.pages[p].paragraphs[q]
                /\ ~HoldsRemoved(DocBefore.pages[p].paragraphs[r].content)
                /\ Strip(DocBefore.pages[p].paragraphs[r].content)
                       # DocBefore.pages[p].paragraphs[r].content

(* ---- Table detection: one line as both row and separator ---- *)

SpansLines(s) ==
    \E i \in NonSpace(s), k \in 1..Len(s), j \in NonSpace(s) :
       i < k /\ k < j /\ s[k] = NL

(* The stripped lines of s that are a row (three pipes) and a separator
   (closing pipe) at once, with no pipe anywhere else in s. *)
LoneTableLines(s) ==
    {l \in StrippedLines(s) :
        /\ IsRow(s, l, 3)
        /\ IsSeparator(s, l, TRUE)
        /\ \A k \in 1..Len(s) : s[k] = PIPE => l[1] <= k /\ k <= l[2]}

(* C29: content of two lines or more in which a single line matches both the
   row pattern and the separator pattern is classified as a table, although
   no other line holds a pipe. *)
C29_OneLineSuffices ==
    (/\ Detected
     /\ SpansLines(returned.content)
     /\ LoneTableLines(returned.content) # {})
        => returned.is_table

C29_Witness ==
    /\ Detected
    /\ returned.content = <<PIPE, DASH, PIPE, PIPE, NL, TXT>>
    /\ LoneTableLines(returned.content) # {}
    /\ returned.is_table

(* ---- Table substitution: what is left alone ---- *)

(* The document has the pages of the input, each with the input's paragraph
   indices in the input's order, the input's non-table paragraphs, and the
   input's images as the first images. *)
FrameKept(document) ==
    /\ Len(document.pages) = Len(TablesIn.pages)
    /\ \A p \in 1..Len(TablesIn.pages) :
          LET old == TablesIn.pages[p]
              new == document.pages[p]
          IN /\ new.index = old.index
             /\ Len(new.paragraphs) = Len(old.paragraphs)
             /\ \A q \in 1..Len(old.paragraphs) :
                   /\ new.paragraphs[q].index = old.paragraphs[q].index
                   /\ ~IsMarkdownTable(old.paragraphs[q].content)
                         => new.paragraphs[q] = old.paragraphs[q]
             /\ Len(new.images) >= Len(old.images)
             /\ SubSeq(new.images, 1, Len(old.images)) = old.images

(* C30: replace_tables_with_images keeps the pages, the number, order and
   indices of the paragraphs of every page, the content of every non-table
   paragraph, and the pre-existing images, in their order, ahead of any
   appended table image; so does the Document saved after it. *)
C30_TableFrame ==
    Substituted =>
        /\ FrameKept(TablesOut)
        /\ interim[TablesIn.zone] # <<>>
        /\ FrameKept(interim[TablesIn.zone][1])

C30_Witness ==
    /\ Substituted
    /\ returned.raised = ""
    /\ returned.warnings >= 1
    /\ Len(TablesIn.pages) = 2
    /\ \E p \in 1..Len(TablesIn.pages) :
          /\ Len(TablesIn.pages[p].images) = 2
          /\ \E t \in TableParagraphs(TablesIn) : t[1] = p
          /\ \E q \in 1..Len(TablesIn.pages[p].paragraphs) :
                ~IsMarkdownTable(TablesIn.pages[p].paragraphs[q].content)

====
